---- MODULE Spec2Model ----
(***************************************************************************)
(* pinoyseoul-monitor: the stateful alerting of the three monitors        *)
(* (backup freshness, container health, certificate validity) over the    *)
(* down-state store of utils/state_manager.py.                            *)
(***************************************************************************)
EXTENDS Integers, Sequences, FiniteSets, TLC

\* ------------------------------------------------------------------ bounds
MaxCycles == 5
MaxDockerCycles == 3
MaxSslCycles == 3
MaxSerialCycles == 2
MaxThreshold == 3
MaxCount == 2
MaxLegacy == 2

\* ------------------------------------------------------- program constants
max_age_hours == 25
critical_threshold == 7
warning_threshold == 30

BACKUP_SERVICE_NAME == "Server Backup System"

\* the monitor subsystems whose failure has an alert of its own: the Docker
\* daemon and the listing command of the backup check
DOCKER_DAEMON == "Docker Daemon"

BACKUP_LISTING == "Backup Listing"

\* Domains handed to check_ssl_certs and containers listed by the daemon.
Domains == <<"radio.example", "www.example">>
Containers == <<"azuracast", "kimai">>

VARIABLES
    stateFile,      \* content of monitor_state.json
    dockerState,    \* the state dict handed to check_docker_health
    config,         \* the monitor configuration, fixed for a run
    sent,           \* send_alert calls of the last cycle, in order
    last,           \* what the last cycle observed and the state it started from
    hist,           \* per entity: the current run of consecutive failing cycles
    cycle,          \* number of completed check cycles
    pc,             \* overlapping invocations: position of each
    localState,     \* overlapping invocations: the in-memory state of each
    marked,         \* overlapping invocations: entities each marked down / up
    notifier        \* _send_card: its environment, its locals and what it did

vars == <<stateFile, dockerState, config, sent, last, hist, cycle, pc, localState,
          marked, notifier>>

\* ------------------------------------------------------------ dictionaries
EmptyDict == [k \in {} |-> 0]

Put(d, k, v) == [x \in (DOMAIN d) \cup {k} |-> IF x = k THEN v ELSE d[x]]

Del(d, k) == [x \in (DOMAIN d) \ {k} |-> d[x]]

\* --------------------------------------------------- utils/state_manager.py
default_state == [down_services |-> EmptyDict]

\* Contents of monitor_state.json. kind is what reading the file gives:
\*   "absent"      os.path.exists is false
\*   "unreadable"  open raises IOError
\*   "empty", "truncated", "garbage"   json.load raises JSONDecodeError
\*   "array", "number"   a JSON value that is not an object
\*   "no_key"      an object without 'down_services'
\*   "wrong_type"  an object whose 'down_services' is a string, number or null
\*   "legacy"      an object whose 'down_services' is the list `legacy`
\*   "object"      an object whose 'down_services' is the dict `down_services`
DamagedFile(kind) == [kind |-> kind, down_services |-> EmptyDict, legacy |-> <<>>]

AbsentFile == DamagedFile("absent")

ObjectFile(state) ==
    [kind |-> "object", down_services |-> state.down_services, legacy |-> <<>>]

LegacyFile(names) ==
    [kind |-> "legacy", down_services |-> EmptyDict, legacy |-> names]

NotJson == {"empty", "truncated", "garbage"}

NotAnObject == {"array", "number"}

\* save_state: open(..., 'w') and json.dump of the whole dict.
save_state(state) == ObjectFile(state)

\* save_state step by step: open(..., 'w') truncates the file, json.dump
\* writes the document piece by piece, leaving the with-block closes it
save_state_open(file) == DamagedFile("empty")

save_state_write(file) == DamagedFile("truncated")

save_state_close(state) == save_state(state)

\* the loop of the migration: every listed name gets failure_count 1
RECURSIVE migrated_down_services(_, _)
migrated_down_services(names, acc) ==
    IF names = <<>> THEN acc
    ELSE migrated_down_services(Tail(names),
                                Put(acc, Head(names), [failure_count |-> 1]))

\* the old list format is detected
needs_migration(file) == file.kind = "legacy"

\* load_state raises: state.get on a list or a number is an AttributeError,
\* which the handler for (JSONDecodeError, IOError) does not catch
load_state_raises(file) == file.kind \in NotAnObject

\* load_state, the value it returns when it returns
load_state(file) ==
    IF file.kind = "object" THEN [down_services |-> file.down_services]
    ELSE IF needs_migration(file)
         THEN [down_services |-> migrated_down_services(file.legacy, EmptyDict)]
         ELSE default_state

\* variant: the migrated state is returned but not saved
load_state_writes_nothing(file) == file

\* load_state, the file it leaves: the migrated document is saved at once
load_state_writes(file) ==
    IF needs_migration(file) THEN save_state(load_state(file)) ELSE file

is_service_down(service_name, state) == service_name \in DOMAIN state.down_services

\* variant: the entry is written whether or not the entity is already there
mark_service_down_always(service_name, state) ==
    [state EXCEPT !.down_services = Put(@, service_name, [failure_count |-> 1])]

mark_service_down(service_name, state) ==
    IF ~is_service_down(service_name, state)
    THEN [state EXCEPT !.down_services = Put(@, service_name, [failure_count |-> 1])]
    ELSE state

\* variant: marking one entity up empties the store
mark_service_up_all(service_name, state) ==
    IF is_service_down(service_name, state)
    THEN [state EXCEPT !.down_services = EmptyDict]
    ELSE state

mark_service_up(service_name, state) ==
    IF is_service_down(service_name, state)
    THEN [state EXCEPT !.down_services = Del(@, service_name)]
    ELSE state

get_failure_count(service_name, state) ==
    IF service_name \in DOMAIN state.down_services
    THEN state.down_services[service_name].failure_count
    ELSE 0

increment_failure_count(service_name, state) ==
    IF ~is_service_down(service_name, state)
    THEN mark_service_down(service_name, state)
    ELSE [state EXCEPT !.down_services[service_name].failure_count =
              get_failure_count(service_name, state) + 1]

\* variant: the counter is left as it is after the alert
reset_failure_count_kept(service_name, state) == state

\* variant: the reset takes the entity out of the store
reset_failure_count_removed(service_name, state) ==
    mark_service_up(service_name, state)

\* variant: the counter restarts at one
reset_failure_count_to_one(service_name, state) ==
    IF is_service_down(service_name, state)
    THEN [state EXCEPT !.down_services[service_name].failure_count = 1]
    ELSE state

reset_failure_count(service_name, state) ==
    IF is_service_down(service_name, state)
    THEN [state EXCEPT !.down_services[service_name].failure_count = 0]
    ELSE state

\* ----------------------------------------------------- utils/google_chat.py
\* send_alert builds one card and hands it to _send_card; a call is recorded
\* as the notification it asks for, whatever the delivery does.
send_alert(out, severity, title, entity) ==
    Append(out, [severity |-> severity, title |-> title, entity |-> entity])

\* program constant of _send_card
max_retries == 2

\* GOOGLE_CHAT_WEBHOOK_URL in the environment
WebhookEnv == {"unset", "placeholder", "configured"}

\* what requests.post / raise_for_status do in one attempt: success, or one
\* of the requests.exceptions.RequestException kinds
RequestFailures == {"timeout", "connection_error", "http_error"}

Responses == {"ok"} \cup RequestFailures

Severities == {"info", "warning", "critical"}

\* _get_webhook_url: is there a usable URL
_get_webhook_url(env) == env \notin {"unset", "placeholder"}

\* one call of _send_card about to start: the environment it will meet
NewSend(webhook, responses, severity) ==
    [webhook |-> webhook, responses |-> responses, severity |-> severity,
     pc |-> "start", attempt |-> 0, trace |-> <<>>, result |-> FALSE,
     raised |-> FALSE]

IdleNotifier ==
    [NewSend("configured", [i \in 1..max_retries |-> "ok"], "info")
        EXCEPT !.pc = "idle"]

\* the head of `for attempt in range(max_retries)`; after the loop, return False
send_loop(n) ==
    IF n.attempt < max_retries THEN [n EXCEPT !.pc = "post"]
    ELSE [n EXCEPT !.pc = "returned", !.result = FALSE]

\* webhook_url = _get_webhook_url(); return False without one
send_start(n) ==
    IF ~_get_webhook_url(n.webhook)
    THEN [n EXCEPT !.pc = "returned", !.result = FALSE]
    ELSE send_loop([n EXCEPT !.attempt = 0])

\* variant: every failed attempt is followed by the wait
retry_wait_always(attempt) == TRUE

\* `if attempt < max_retries - 1`
retry_wait(attempt) == attempt < max_retries - 1

\* variant: the last failure is raised to the caller
final_failure_raised(n) ==
    [n EXCEPT !.pc = "returned", !.result = FALSE, !.raised = TRUE]

\* `else: return False` after the last failed attempt
final_failure(n) == [n EXCEPT !.pc = "returned", !.result = FALSE]

\* one requests.post with raise_for_status and the except clause
send_post(n) ==
    LET response == n.responses[n.attempt + 1]
    IN  IF response = "ok"
        THEN [n EXCEPT !.pc = "returned", !.result = TRUE,
                       !.trace = Append(@, "post_ok")]
        ELSE IF response \in RequestFailures
        THEN LET failed == [n EXCEPT !.trace = Append(@, "post_failed")]
             IN  IF retry_wait(n.attempt) THEN [failed EXCEPT !.pc = "sleep"]
                 ELSE final_failure(failed)
        ELSE [n EXCEPT !.pc = "returned", !.raised = TRUE,
                       !.trace = Append(@, "post_failed")]

\* time.sleep(5), then the next iteration
send_sleep(n) ==
    send_loop([n EXCEPT !.trace = Append(@, "sleep"), !.attempt = @ + 1])

\* _send_card run to its end
RECURSIVE _send_card(_)
_send_card(n) ==
    CASE n.pc = "start" -> _send_card(send_start(n))
      [] n.pc = "post" -> _send_card(send_post(n))
      [] n.pc = "sleep" -> _send_card(send_sleep(n))
      [] OTHER -> n

\* how many of the notifications in out are critical / are alerts at all
CountCritical(out) ==
    Cardinality({i \in DOMAIN out : out[i].severity = "critical"})

CountAlerts(out) ==
    Cardinality({i \in DOMAIN out : out[i].severity \in {"critical", "warning"}})

\* ------------------------------------------------- monitors/backup_check.py
\* What `rclone lsjson` did in one cycle: a listing whose newest .tar.gz is
\* age_hours old, an empty listing, a listing with no usable .tar.gz, a
\* timeout, a non-zero exit, a missing executable, or output that is not JSON.
ListingAges == {max_age_hours - 1, max_age_hours, max_age_hours + 1}

ProbeKinds ==
    {"listed", "no_files", "no_archive", "timeout", "exit_nonzero",
     "missing_executable", "not_json"}

\* the ways the listing command itself fails
TransportFailures == {"timeout", "exit_nonzero", "missing_executable", "not_json"}

ProbeOutcomes ==
    {[kind |-> "listed", age_hours |-> a] : a \in ListingAges}
    \cup {[kind |-> k, age_hours |-> 0] : k \in ProbeKinds \ {"listed"}}

None == [found |-> FALSE, age_hours |-> 0]

OfflineTitle == "CRITICAL: Backup System Offline"

\* _get_latest_backup_info: the latest backup or None; the CalledProcessError
\* handler sends its own critical alert before returning None.
_get_latest_backup_info(probe, out) ==
    CASE probe.kind = "listed" ->
            [info |-> [found |-> TRUE, age_hours |-> probe.age_hours], out |-> out]
      [] probe.kind = "exit_nonzero" ->
            [info |-> None,
             out |-> send_alert(out, "critical", OfflineTitle, BACKUP_SERVICE_NAME)]
      [] OTHER -> [info |-> None, out |-> out]

\* variant: a missing listing does not count as a failure
backup_failed_age_only(backup_info) ==
    backup_info.found /\ backup_info.age_hours > max_age_hours

\* the failure condition of check_backup_age
backup_failed(backup_info) ==
    ~backup_info.found \/ backup_info.age_hours > max_age_hours

\* variant: the alert waits for one strike more than the threshold
threshold_reached_strict(failure_count, failure_threshold) ==
    failure_count > failure_threshold

threshold_reached(failure_count, failure_threshold) ==
    failure_count >= failure_threshold

\* the failure branch: count a strike, alert and reset at the threshold
backup_failure_branch(cfg, state, out) ==
    LET s1 == increment_failure_count(BACKUP_SERVICE_NAME, state)
        failure_count == get_failure_count(BACKUP_SERVICE_NAME, s1)
    IN  IF threshold_reached(failure_count, cfg.failure_threshold)
        THEN [state |-> reset_failure_count(BACKUP_SERVICE_NAME, s1),
              out |-> send_alert(out, "critical", "CRITICAL: Backup System Failure",
                                 BACKUP_SERVICE_NAME),
              status |-> "failed"]
        ELSE [state |-> s1, out |-> out, status |-> "failed"]

\* the success branch with its "All Clear" logic
backup_success_branch(cfg, state, out) ==
    IF is_service_down(BACKUP_SERVICE_NAME, state)
    THEN [state |-> mark_service_up(BACKUP_SERVICE_NAME, state),
          out |-> send_alert(out, "info", "ALL CLEAR: Backup System Restored",
                             BACKUP_SERVICE_NAME),
          status |-> "success"]
    ELSE [state |-> state, out |-> out, status |-> "success"]

\* check_backup_age between its load_state and its save_state
backup_body(cfg, state, probe) ==
    LET got == _get_latest_backup_info(probe, <<>>)
    IN  IF backup_failed(got.info)
        THEN backup_failure_branch(cfg, state, got.out)
        ELSE backup_success_branch(cfg, state, got.out)

\* check_backup_age: load_state, probe, decide, save_state
check_backup_age(cfg, file, probe) ==
    LET r == backup_body(cfg, load_state(file), probe)
    IN  [file |-> save_state(r.state), state |-> r.state, out |-> r.out,
         status |-> r.status]

\* ------------------------------------------------ monitors/docker_health.py
maintenance_start == 120
maintenance_end == 135

\* variant: no handling of a window that spans midnight
_is_in_maintenance_window_same_day(enabled, start_time, end_time, now) ==
    enabled /\ start_time <= now /\ now < end_time

\* _is_in_maintenance_window, times of day in minutes
_is_in_maintenance_window(enabled, start_time, end_time, now) ==
    IF ~enabled THEN FALSE
    ELSE IF end_time < start_time
         THEN now >= start_time \/ now < end_time
         ELSE start_time <= now /\ now < end_time

\* What one cycle finds: whether the daemon answers, the containers it lists
\* (status, and whether container.start() would succeed), the time of day.
ContainerObs ==
    {[status |-> "running", start_ok |-> TRUE],
     [status |-> "exited", start_ok |-> TRUE],
     [status |-> "exited", start_ok |-> FALSE],
     [status |-> "dead", start_ok |-> TRUE],
     [status |-> "dead", start_ok |-> FALSE],
     [status |-> "restarting", start_ok |-> TRUE],
     [status |-> "paused", start_ok |-> TRUE]}

ClockTimes == {maintenance_start, maintenance_end}

DockerObs ==
    {[daemon |-> "unreachable", listed |-> <<>>, now |-> maintenance_end],
     [daemon |-> "ok", listed |-> <<>>, now |-> maintenance_end]}
    \cup {[daemon |-> "ok", listed |-> l, now |-> t] :
             l \in [DOMAIN Containers -> ContainerObs], t \in ClockTimes}

new_summary ==
    [total_containers |-> 0, running |-> 0, stopped |-> 0, issues |-> <<>>,
     status |-> "healthy"]

\* status == 'running': count it, and the stateful 'resolved' logic
running_branch(acc, name) ==
    LET counted == [acc EXCEPT !.summary.running = @ + 1]
    IN  IF is_service_down(name, acc.state)
        THEN [counted EXCEPT
                 !.out = send_alert(@, "info", "ALL CLEAR: Service Restored", name),
                 !.state = mark_service_up(name, @)]
        ELSE counted

\* variant: the record made before the restart is kept after it succeeded
restart_succeeded_still_down(acc, name) ==
    [acc EXCEPT
        !.out = send_alert(@, "info", "Auto-Recovery: Restarted", name),
        !.summary.status = IF @ # "critical" THEN "warning" ELSE @]

\* variant: a successful restart sets the status whatever it was
restart_succeeded_overrides(acc, name) ==
    [acc EXCEPT
        !.out = send_alert(@, "info", "Auto-Recovery: Restarted", name),
        !.state = mark_service_up(name, @),
        !.summary.status = "warning"]

\* container.start() returned: Auto-Recovery notice, mark up, status warning
restart_succeeded(acc, name) ==
    [acc EXCEPT
        !.out = send_alert(@, "info", "Auto-Recovery: Restarted", name),
        !.state = mark_service_up(name, @),
        !.summary.status = IF @ # "critical" THEN "warning" ELSE @]

\* container.start() raised APIError: critical alert, the record stays
restart_failed(acc, name) ==
    [acc EXCEPT
        !.out = send_alert(@, "critical", "CRITICAL: Service Down", name),
        !.summary.issues = Append(@, name),
        !.summary.status = "critical"]

\* status in ['exited', 'dead']
stopped_branch(acc, name, start_ok, in_maintenance) ==
    LET counted == [acc EXCEPT !.summary.stopped = @ + 1]
    IN  IF in_maintenance THEN counted
        ELSE LET tried == [counted EXCEPT !.state = mark_service_down(name, @),
                                          !.restarts = Append(@, name)]
             IN  IF start_ok THEN restart_succeeded(tried, name)
                 ELSE restart_failed(tried, name)

\* status == 'restarting'
restarting_branch(acc, name) ==
    [acc EXCEPT
        !.summary.stopped = @ + 1,
        !.state = mark_service_down(name, @),
        !.out = send_alert(@, "critical", "CRITICAL: Service Unstable", name),
        !.summary.issues = Append(@, name),
        !.summary.status = "critical"]

container_step(acc, name, c, in_maintenance) ==
    CASE c.status = "running" -> running_branch(acc, name)
      [] c.status \in {"exited", "dead"} ->
            stopped_branch(acc, name, c.start_ok, in_maintenance)
      [] c.status = "restarting" -> restarting_branch(acc, name)
      [] OTHER -> acc

RECURSIVE container_loop(_, _, _, _)
\* `for container in containers`, from the i-th container on
container_loop(acc, listed, i, in_maintenance) ==
    IF i > Len(listed) THEN acc
    ELSE container_loop(container_step(acc, Containers[i], listed[i], in_maintenance),
                        listed, i + 1, in_maintenance)

\* variant: an unreachable daemon empties the state
check_docker_health_forgets(cfg, state, obs) ==
    LET start == [state |-> state, out |-> <<>>, restarts |-> <<>>,
                  summary |-> new_summary]
    IN  IF obs.daemon = "unreachable"
        THEN [start EXCEPT
                 !.state = default_state,
                 !.out = send_alert(@, "critical", "CRITICAL: Cannot Connect to Docker",
                                    DOCKER_DAEMON),
                 !.summary.status = "critical"]
        ELSE IF obs.listed = <<>> THEN start
        ELSE container_loop(
                 [start EXCEPT !.summary.total_containers = Len(obs.listed)],
                 obs.listed, 1,
                 _is_in_maintenance_window(cfg.maintenance_enabled, maintenance_start,
                                           maintenance_end, obs.now))

\* check_docker_health(config, state): the state it leaves in the dict it was
\* given, the alerts it sent, the restarts it attempted and its summary
check_docker_health(cfg, state, obs) ==
    LET start == [state |-> state, out |-> <<>>, restarts |-> <<>>,
                  summary |-> new_summary]
    IN  IF obs.daemon = "unreachable"
        THEN [start EXCEPT
                 !.out = send_alert(@, "critical", "CRITICAL: Cannot Connect to Docker",
                                    DOCKER_DAEMON),
                 !.summary.status = "critical"]
        ELSE IF obs.listed = <<>> THEN start
        ELSE container_loop(
                 [start EXCEPT !.summary.total_containers = Len(obs.listed)],
                 obs.listed, 1,
                 _is_in_maintenance_window(cfg.maintenance_enabled, maintenance_start,
                                           maintenance_end, obs.now))

\* ---------------------------------------------------- monitors/ssl_check.py
\* What the handshake with one domain gives: a certificate with days_left to
\* its expiry, no connection, a certificate that fails verification, or any
\* other exception.
DaysLeft ==
    {-1, critical_threshold - 1, critical_threshold,
     warning_threshold - 1, warning_threshold}

DomainObs ==
    {[kind |-> "cert", days_left |-> d] : d \in DaysLeft}
    \cup {[kind |-> k, days_left |-> -1] : k \in {"unreachable", "invalid", "unexpected"}}

\* variant: a certificate at the critical threshold is already critical
ssl_status_inclusive(c, ct, wt) ==
    CASE c.kind = "unreachable" -> [status |-> "error", domain_down |-> TRUE]
      [] c.kind = "invalid" -> [status |-> "critical", domain_down |-> TRUE]
      [] c.kind = "unexpected" -> [status |-> "error", domain_down |-> TRUE]
      [] c.days_left < 0 -> [status |-> "critical", domain_down |-> TRUE]
      [] c.days_left <= ct -> [status |-> "critical", domain_down |-> TRUE]
      [] c.days_left < wt -> [status |-> "warning", domain_down |-> FALSE]
      [] OTHER -> [status |-> "valid", domain_down |-> FALSE]

\* variant: a warning counts as down
ssl_status_warning_down(c, ct, wt) ==
    CASE c.kind = "unreachable" -> [status |-> "error", domain_down |-> TRUE]
      [] c.kind = "invalid" -> [status |-> "critical", domain_down |-> TRUE]
      [] c.kind = "unexpected" -> [status |-> "error", domain_down |-> TRUE]
      [] c.days_left < 0 -> [status |-> "critical", domain_down |-> TRUE]
      [] c.days_left < ct -> [status |-> "critical", domain_down |-> TRUE]
      [] c.days_left < wt -> [status |-> "warning", domain_down |-> TRUE]
      [] OTHER -> [status |-> "valid", domain_down |-> FALSE]

\* the status written to the report and whether the domain counts as down
ssl_status(c, ct, wt) ==
    CASE c.kind = "unreachable" -> [status |-> "error", domain_down |-> TRUE]
      [] c.kind = "invalid" -> [status |-> "critical", domain_down |-> TRUE]
      [] c.kind = "unexpected" -> [status |-> "error", domain_down |-> TRUE]
      [] c.days_left < 0 -> [status |-> "critical", domain_down |-> TRUE]
      [] c.days_left < ct -> [status |-> "critical", domain_down |-> TRUE]
      [] c.days_left < wt -> [status |-> "warning", domain_down |-> FALSE]
      [] OTHER -> [status |-> "valid", domain_down |-> FALSE]

\* the alert sent for the domain in the branch taken
ssl_alert(out, domain, c, ct, wt, was_down) ==
    CASE c.kind = "unreachable" ->
            send_alert(out, "warning", "Service Unreachable", domain)
      [] c.kind = "invalid" ->
            send_alert(out, "critical", "CRITICAL: Invalid Website Security", domain)
      [] c.kind = "unexpected" -> out
      [] c.days_left < 0 ->
            send_alert(out, "critical", "URGENT: Website Security Expired", domain)
      [] c.days_left < ct ->
            send_alert(out, "critical", "URGENT: Renew Website Security", domain)
      [] c.days_left < wt ->
            send_alert(out, "warning", "Heads-Up: Security Renewal", domain)
      [] OTHER ->
            IF was_down THEN send_alert(out, "info", "ALL CLEAR: Restored", domain)
            ELSE out

\* variant: after a domain in error the domains that follow are not probed
\* and keep the report they start with
domain_step_stops(acc, domain, c, ct, wt) ==
    IF \E i \in DOMAIN acc.results : acc.results[i].status = "error"
    THEN [acc EXCEPT !.results = Append(@, [domain |-> domain, status |-> "error"])]
    ELSE LET st == ssl_status(c, ct, wt)
             was_down == is_service_down(domain, acc.state)
             cleared == IF st.status = "valid" /\ was_down
                        THEN mark_service_up(domain, acc.state)
                        ELSE acc.state
         IN  [state |-> IF st.domain_down THEN mark_service_down(domain, cleared)
                        ELSE cleared,
              out |-> ssl_alert(acc.out, domain, c, ct, wt, was_down),
              results |-> Append(acc.results, [domain |-> domain, status |-> st.status])]

\* one iteration of `for domain in domains`
domain_step(acc, domain, c, ct, wt) ==
    LET st == ssl_status(c, ct, wt)
        was_down == is_service_down(domain, acc.state)
        cleared == IF st.status = "valid" /\ was_down
                   THEN mark_service_up(domain, acc.state)
                   ELSE acc.state
    IN  [state |-> IF st.domain_down THEN mark_service_down(domain, cleared) ELSE cleared,
         out |-> ssl_alert(acc.out, domain, c, ct, wt, was_down),
         results |-> Append(acc.results, [domain |-> domain, status |-> st.status])]

RECURSIVE domain_loop(_, _, _, _, _, _)
domain_loop(acc, domains, obs, i, ct, wt) ==
    IF i > Len(domains) THEN acc
    ELSE domain_loop(domain_step(acc, domains[i], obs[i], ct, wt),
                     domains, obs, i + 1, ct, wt)

\* check_ssl_certs between its load_state and its save_state
ssl_body(domains, state, obs) ==
    domain_loop([state |-> state, out |-> <<>>, results |-> <<>>],
                domains, obs, 1, critical_threshold, warning_threshold)

\* check_ssl_certs: load_state, one probe per domain, save_state
check_ssl_certs(domains, file, obs) ==
    LET r == ssl_body(domains, load_state(file), obs)
    IN  [file |-> save_state(r.state), state |-> r.state, out |-> r.out,
         results |-> r.results]

\* ------------------------------------------------------------- observation
Entities ==
    {BACKUP_SERVICE_NAME}
    \cup {Domains[i] : i \in DOMAIN Domains}
    \cup {Containers[i] : i \in DOMAIN Containers}

\* entities and monitor subsystems whose consecutive failing cycles are followed
Observed == Entities \cup {DOCKER_DAEMON, BACKUP_LISTING}

NoRun == [streak |-> 0, alerts |-> 0, adapter |-> FALSE]

\* the run of consecutive failing cycles of entity e, extended by one cycle
Extend(h, e, failing, alerts, adapter) ==
    [h EXCEPT ![e] = IF failing
                     THEN [streak |-> @.streak + 1, alerts |-> @.alerts + alerts,
                           adapter |-> @.adapter \/ adapter]
                     ELSE NoRun]

\* two check invocations started by overlapping cron jobs
Invocations == {"first", "second"}

Configs ==
    [failure_threshold : 1..MaxThreshold,
     alert_on_recovery : BOOLEAN,
     maintenance_enabled : BOOLEAN]

Init ==
    /\ stateFile = AbsentFile
    /\ dockerState = default_state
    /\ config \in Configs
    /\ sent = <<>>
    /\ last = [check |-> "none"]
    /\ hist = [e \in Observed |-> NoRun]
    /\ cycle = 0
    /\ pc = [p \in Invocations |-> "idle"]
    /\ localState = [p \in Invocations |-> default_state]
    /\ marked = [p \in Invocations |-> [down |-> {}, healthy |-> {}]]
    /\ notifier = IdleNotifier

ForEntity(out, e) == SelectSeq(out, LAMBDA n : n.entity = e)

WithTitle(out, title) == SelectSeq(out, LAMBDA n : n.title = title)

\* one run of `--check backup`
BackupCycle ==
    /\ cycle < MaxCycles
    /\ \E probe \in ProbeOutcomes :
          LET r == check_backup_age(config, stateFile, probe)
          IN  /\ stateFile' = r.file
              /\ sent' = r.out
              /\ last' = [check |-> "backup", probe |-> probe,
                          before |-> load_state(stateFile), prior |-> hist,
                          status |-> r.status]
              /\ hist' = Extend(Extend(hist, BACKUP_SERVICE_NAME, r.status = "failed",
                                       CountCritical(r.out),
                                       probe.kind = "exit_nonzero"),
                                BACKUP_LISTING, probe.kind = "exit_nonzero",
                                CountCritical(WithTitle(r.out, OfflineTitle)), FALSE)
    /\ cycle' = cycle + 1
    /\ UNCHANGED <<notifier, dockerState, config, pc, localState, marked>>

\* a container observation that leaves the container down, outside maintenance
ContainerFailing(c) ==
    \/ c.status = "restarting"
    \/ (c.status \in {"exited", "dead"} /\ ~c.start_ok)

InMaintenance(obs) ==
    _is_in_maintenance_window(config.maintenance_enabled, maintenance_start,
                              maintenance_end, obs.now)

RECURSIVE ExtendContainers(_, _, _, _)
ExtendContainers(h, obs, out, i) ==
    IF i > Len(Containers) THEN h
    ELSE ExtendContainers(
             Extend(h, Containers[i],
                    /\ obs.daemon = "ok"
                    /\ obs.listed # <<>>
                    /\ ~InMaintenance(obs)
                    /\ ContainerFailing(obs.listed[i]),
                    CountCritical(ForEntity(out, Containers[i])), FALSE),
             obs, out, i + 1)

\* the containers a cycle restarted successfully
Restarted(l) ==
    IF l.check # "docker" THEN {}
    ELSE {Containers[i] : i \in {k \in DOMAIN l.obs.listed :
                                    /\ l.obs.listed[k].start_ok
                                    /\ \E j \in DOMAIN l.restarts :
                                          l.restarts[j] = Containers[k]}}

\* one run of check_docker_health on the dict its caller keeps
DockerCycle ==
    /\ cycle < MaxDockerCycles
    /\ \E obs \in DockerObs :
          LET r == check_docker_health(config, dockerState, obs)
          IN  /\ dockerState' = r.state
              /\ sent' = r.out
              /\ last' = [check |-> "docker", obs |-> obs,
                          in_maintenance |-> obs.listed # <<>> /\ InMaintenance(obs),
                          after_maintenance |->
                              last.check = "docker" /\ last.in_maintenance,
                          before |-> dockerState, prior |-> hist,
                          restarted_before |-> Restarted(last),
                          restarts |-> r.restarts, summary |-> r.summary]
              /\ hist' = Extend(ExtendContainers(hist, obs, r.out, 1),
                                DOCKER_DAEMON, obs.daemon = "unreachable",
                                CountCritical(ForEntity(r.out, DOCKER_DAEMON)), FALSE)
    /\ cycle' = cycle + 1
    /\ UNCHANGED <<notifier, stateFile, config, pc, localState, marked>>

\* a certificate observation of the kinds that alert and mark the domain down
DomainFailing(c) ==
    \/ c.kind \in {"unreachable", "invalid"}
    \/ (c.kind = "cert" /\ c.days_left < critical_threshold)

RECURSIVE ExtendDomains(_, _, _, _)
ExtendDomains(h, obs, out, i) ==
    IF i > Len(Domains) THEN h
    ELSE ExtendDomains(
             Extend(h, Domains[i], DomainFailing(obs[i]),
                    CountAlerts(ForEntity(out, Domains[i])), FALSE),
             obs, out, i + 1)

\* the domains for which an alert (critical or warning) was sent since they
\* were last observed valid, after a cycle that started with the set before
AlertedSinceValid(before, results, out) ==
    {Domains[i] : i \in {k \in DOMAIN Domains :
                            /\ results[k].status # "valid"
                            /\ \/ Domains[k] \in before
                               \/ CountAlerts(ForEntity(out, Domains[k])) > 0}}

\* one run of `--check ssl`
SslCycle ==
    /\ cycle < MaxSslCycles
    /\ \E obs \in [DOMAIN Domains -> DomainObs] :
          LET r == check_ssl_certs(Domains, stateFile, obs)
          IN  /\ stateFile' = r.file
              /\ sent' = r.out
              /\ last' = [check |-> "ssl", obs |-> obs,
                          before |-> load_state(stateFile), prior |-> hist,
                          alerted_before |->
                              IF last.check = "ssl" THEN last.alerted ELSE {},
                          alerted |->
                              AlertedSinceValid(
                                  IF last.check = "ssl" THEN last.alerted ELSE {},
                                  r.results, r.out),
                          results |-> r.results]
              /\ hist' = ExtendDomains(hist, obs, r.out, 1)
    /\ cycle' = cycle + 1
    /\ UNCHANGED <<notifier, dockerState, config, pc, localState, marked>>

NextBackup == BackupCycle

SpecBackup == Init /\ [][NextBackup]_vars

\* the container check alone; it never reads failure_threshold
InitDocker == Init /\ config.failure_threshold = 2

NextDocker == DockerCycle

SpecDocker == InitDocker /\ [][NextDocker]_vars

\* the certificate check alone; it reads neither failure_threshold nor the
\* maintenance window
InitSsl == Init /\ config.failure_threshold = 2 /\ ~config.maintenance_enabled

NextSsl == SslCycle

SpecSsl == InitSsl /\ [][NextSsl]_vars

\* ------------------------------------------------- overlapping invocations
\* An invocation reads the state file (load_state), probes and decides on its
\* own copy, and writes the file (save_state); nothing orders the file
\* accesses of two processes.
LoadStep(p) ==
    /\ pc[p] = "idle"
    /\ \E check \in {"ssl", "backup"} : pc' = [pc EXCEPT ![p] = check]
    /\ localState' = [localState EXCEPT ![p] = load_state(stateFile)]
    /\ UNCHANGED <<notifier, stateFile, dockerState, config, sent, last, hist, cycle, marked>>

Decided(p, r, healthy) ==
    /\ localState' = [localState EXCEPT ![p] = r.state]
    /\ sent' = r.out
    /\ marked' = [marked EXCEPT ![p] =
                     [down |-> (DOMAIN r.state.down_services)
                                  \ (DOMAIN localState[p].down_services),
                      healthy |-> healthy]]
    /\ pc' = [pc EXCEPT ![p] = "decided"]

BackupDecideStep(p) ==
    /\ pc[p] = "backup"
    /\ \E probe \in ProbeOutcomes :
          LET r == backup_body(config, localState[p], probe)
          IN  Decided(p, r, IF r.status = "success" THEN {BACKUP_SERVICE_NAME} ELSE {})
    /\ UNCHANGED <<notifier, stateFile, dockerState, config, last, hist, cycle>>

SslDecideStep(p) ==
    /\ pc[p] = "ssl"
    /\ \E obs \in [DOMAIN Domains -> DomainObs] :
          LET r == ssl_body(Domains, localState[p], obs)
          IN  Decided(p, r, {Domains[i] : i \in {j \in DOMAIN Domains :
                                                   r.results[j].status = "valid"}})
    /\ UNCHANGED <<notifier, stateFile, dockerState, config, last, hist, cycle>>

SaveStep(p) ==
    /\ pc[p] = "decided"
    /\ stateFile' = save_state(localState[p])
    /\ pc' = [pc EXCEPT ![p] = "done"]
    /\ UNCHANGED <<notifier, dockerState, config, sent, last, hist, cycle, localState, marked>>

InitOverlap == Init /\ config.failure_threshold = 1 /\ ~config.maintenance_enabled

NextOverlap ==
    \E p \in Invocations :
       LoadStep(p) \/ BackupDecideStep(p) \/ SslDecideStep(p) \/ SaveStep(p)

SpecOverlap == InitOverlap /\ [][NextOverlap]_vars

\* the three checks, one after the other in any order, as cron starts them
Next ==
    /\ cycle < MaxSerialCycles
    /\ (BackupCycle \/ DockerCycle \/ SslCycle)

Spec == Init /\ [][Next]_vars

\* ------------------------------------------------------ the state store
\* One process working on monitor_state.json: load_state, accessor calls on
\* the loaded dict, save_state step by step; the process may stop anywhere.
StoreNames == {BACKUP_SERVICE_NAME, Domains[1]}

StoreProcess == "first"

StoreDicts ==
    UNION {[names -> [failure_count : 0..MaxCount]] : names \in SUBSET StoreNames}

LegacyLists ==
    UNION {[1..n -> StoreNames] : n \in 0..MaxLegacy}

StoreFiles ==
    {DamagedFile(k) : k \in {"absent", "unreadable", "no_key", "wrong_type"}
                            \cup NotJson \cup NotAnObject}
    \cup {ObjectFile([down_services |-> d]) : d \in StoreDicts}
    \cup {LegacyFile(names) : names \in LegacyLists}

\* everything but the state file, before any process has run
Quiescent ==
    /\ dockerState = default_state
    /\ config = [failure_threshold |-> 2, alert_on_recovery |-> FALSE,
                 maintenance_enabled |-> FALSE]
    /\ sent = <<>>
    /\ last = [check |-> "none"]
    /\ hist = [e \in Observed |-> NoRun]
    /\ cycle = 0
    /\ pc = [p \in Invocations |-> "idle"]
    /\ localState = [p \in Invocations |-> default_state]
    /\ marked = [p \in Invocations |-> [down |-> {}, healthy |-> {}]]
    /\ notifier = IdleNotifier

InitStore ==
    /\ stateFile \in StoreFiles
    /\ Quiescent

\* a process starts and calls load_state; an exception ends the process
StoreLoad(p) ==
    /\ pc[p] = "idle"
    /\ last' = [check |-> "load_state", file |-> stateFile,
                raised |-> load_state_raises(stateFile),
                state |-> load_state(stateFile)]
    /\ IF load_state_raises(stateFile)
       THEN UNCHANGED <<stateFile, localState, pc>>
       ELSE /\ stateFile' = load_state_writes(stateFile)
            /\ localState' = [localState EXCEPT ![p] = load_state(stateFile)]
            /\ pc' = [pc EXCEPT ![p] = "loaded"]
    /\ UNCHANGED <<notifier, dockerState, config, sent, hist, cycle, marked>>

Accessors ==
    {"mark_service_down", "mark_service_up", "increment_failure_count",
     "reset_failure_count"}

Apply(op, service_name, state) ==
    CASE op = "mark_service_down" -> mark_service_down(service_name, state)
      [] op = "mark_service_up" -> mark_service_up(service_name, state)
      [] op = "increment_failure_count" ->
            increment_failure_count(service_name, state)
      [] op = "reset_failure_count" -> reset_failure_count(service_name, state)

\* one accessor call on the loaded dict
StoreAccess(p) ==
    /\ pc[p] = "loaded"
    /\ \E op \in Accessors, service_name \in StoreNames :
          /\ op = "increment_failure_count" =>
                get_failure_count(service_name, localState[p]) < MaxCount
          /\ localState' = [localState EXCEPT
                              ![p] = Apply(op, service_name, localState[p])]
          /\ last' = [check |-> op, service_name |-> service_name,
                      before |-> localState[p]]
    /\ UNCHANGED <<notifier, stateFile, dockerState, config, sent, hist, cycle, pc, marked>>

StoreSaveOpen(p) ==
    /\ pc[p] = "loaded"
    /\ stateFile' = save_state_open(stateFile)
    /\ pc' = [pc EXCEPT ![p] = "save_opened"]
    /\ last' = [check |-> "save_state", previous |-> stateFile]
    /\ UNCHANGED <<notifier, dockerState, config, sent, hist, cycle, localState, marked>>

StoreSaveWrite(p) ==
    /\ pc[p] = "save_opened"
    /\ stateFile' = save_state_write(stateFile)
    /\ pc' = [pc EXCEPT ![p] = "save_written"]
    /\ UNCHANGED <<notifier, dockerState, config, sent, last, hist, cycle, localState, marked>>

\* the file is closed complete and the process ends
StoreSaveClose(p) ==
    /\ pc[p] \in {"save_opened", "save_written"}
    /\ stateFile' = save_state_close(localState[p])
    /\ pc' = [pc EXCEPT ![p] = "idle"]
    /\ last' = [check |-> "saved", previous |-> last.previous]
    /\ UNCHANGED <<notifier, dockerState, config, sent, hist, cycle, localState, marked>>

\* the process is stopped (kill, power loss) before it has finished
StoreStop(p) ==
    /\ pc[p] \in {"loaded", "save_opened", "save_written"}
    /\ pc' = [pc EXCEPT ![p] = "idle"]
    /\ last' = [check |-> "stopped", during_save |-> pc[p] # "loaded",
                previous |-> IF pc[p] = "loaded" THEN stateFile ELSE last.previous,
                new |-> localState[p]]
    /\ UNCHANGED <<notifier, stateFile, dockerState, config, sent, hist, cycle, localState, marked>>

NextStore ==
    \/ StoreLoad(StoreProcess)
    \/ StoreAccess(StoreProcess)
    \/ StoreSaveOpen(StoreProcess)
    \/ StoreSaveWrite(StoreProcess)
    \/ StoreSaveClose(StoreProcess)
    \/ StoreStop(StoreProcess)

SpecStore == InitStore /\ [][NextStore]_vars

\* ------------------------------------------------------------ the notifier
\* One call of _send_card, step by step, against every environment.
InitSend ==
    /\ stateFile = AbsentFile
    /\ Quiescent

SendStart ==
    /\ notifier.pc = "idle"
    /\ \E webhook \in WebhookEnv, responses \in [1..max_retries -> Responses],
          severity \in Severities :
          notifier' = send_start(NewSend(webhook, responses, severity))
    /\ UNCHANGED <<stateFile, dockerState, config, sent, last, hist, cycle, pc,
                   localState, marked>>

SendPost ==
    /\ notifier.pc = "post"
    /\ notifier' = send_post(notifier)
    /\ UNCHANGED <<stateFile, dockerState, config, sent, last, hist, cycle, pc,
                   localState, marked>>

SendSleep ==
    /\ notifier.pc = "sleep"
    /\ notifier' = send_sleep(notifier)
    /\ UNCHANGED <<stateFile, dockerState, config, sent, last, hist, cycle, pc,
                   localState, marked>>

NextSend == SendStart \/ SendPost \/ SendSleep

\* requests.post has timeout=15 and time.sleep(5) ends: every step is taken
SpecSend == InitSend /\ [][NextSend]_vars /\ WF_vars(SendPost) /\ WF_vars(SendSleep)

\* ------------------------------------------------- main.py: `--check` runs
\* What the webhook does to the cards of one run: delivered, delivered on the
\* retry, refused on both attempts, no webhook configured, or an exception
\* inside send_alert that is not a RequestException.
RunDeliveries ==
    {[webhook |-> "configured", responses |-> <<"ok", "ok">>],
     [webhook |-> "configured", responses |-> <<"timeout", "ok">>],
     [webhook |-> "configured", responses |-> <<"timeout", "http_error">>],
     [webhook |-> "unset", responses |-> <<"ok", "ok">>],
     [webhook |-> "configured", responses |-> <<"unexpected", "ok">>]}

\* send_alert: the card is handed to _send_card and its result is dropped
send_outcome(d) == _send_card(NewSend(d.webhook, d.responses, "info"))

\* check_backup_age with the delivery of its cards: an exception leaving
\* send_alert leaves check_backup_age before its save_state
check_backup_age_sending(cfg, file, probe, d) ==
    LET r == check_backup_age(cfg, file, probe)
    IN  IF r.out # <<>> /\ send_outcome(d).raised
        THEN [file |-> file, out |-> <<r.out[1]>>, healthy |-> FALSE,
              raised |-> TRUE]
        ELSE [file |-> r.file, out |-> r.out, healthy |-> r.status = "success",
              raised |-> FALSE]

\* one iteration of `for domain in domains` when send_alert raises: inside
\* the try block the `except Exception` clause takes over (status 'error',
\* domain_down); inside an except clause the exception leaves the function
domain_step_raising(acc, domain, c, ct, wt) ==
    LET was_down == is_service_down(domain, acc.state)
        out == ssl_alert(acc.out, domain, c, ct, wt, was_down)
        r == domain_step([state |-> acc.state, out |-> acc.out,
                          results |-> acc.results], domain, c, ct, wt)
    IN  IF out = acc.out
        THEN [state |-> r.state, out |-> r.out, results |-> r.results,
              raised |-> FALSE]
        ELSE IF c.kind \in {"unreachable", "invalid"}
        THEN [acc EXCEPT !.out = out, !.raised = TRUE]
        ELSE [state |-> mark_service_down(domain, acc.state), out |-> out,
              results |-> Append(acc.results, [domain |-> domain, status |-> "error"]),
              raised |-> FALSE]

RECURSIVE domain_loop_raising(_, _, _, _, _, _)
domain_loop_raising(acc, domains, obs, i, ct, wt) ==
    IF i > Len(domains) \/ acc.raised THEN acc
    ELSE domain_loop_raising(domain_step_raising(acc, domains[i], obs[i], ct, wt),
                             domains, obs, i + 1, ct, wt)

AllValid(results) == \A i \in DOMAIN results : results[i].status = "valid"

\* check_ssl_certs with the delivery of its cards
check_ssl_certs_sending(domains, file, obs, d) ==
    IF send_outcome(d).raised
    THEN LET r == domain_loop_raising(
                      [state |-> load_state(file), out |-> <<>>, results |-> <<>>,
                       raised |-> FALSE],
                      domains, obs, 1, critical_threshold, warning_threshold)
         IN  [file |-> IF r.raised THEN file ELSE save_state(r.state),
              out |-> r.out, healthy |-> ~r.raised /\ AllValid(r.results),
              raised |-> r.raised]
    ELSE LET r == check_ssl_certs(domains, file, obs)
         IN  [file |-> r.file, out |-> r.out, healthy |-> AllValid(r.results),
              raised |-> FALSE]

\* a call with keyword arguments binds when the keywords are the parameters
call_binds(keywords, parameters) == keywords = parameters

\* run_checks calls check_docker_health(name_map=..., portainer_url=...);
\* its definition is check_docker_health(config, state)
docker_call_binds == call_binds({"name_map", "portainer_url"}, {"config", "state"})

CheckNames == {"docker", "ssl", "backup", "all"}

Monitors == {"docker", "ssl", "backup"}

Selected(check_name) == IF check_name = "all" THEN Monitors ELSE {check_name}

NewRun(file) ==
    [file |-> file, out |-> <<>>, overall_healthy |-> TRUE, raised |-> FALSE,
     called |-> {}, saved |-> {}]

\* the docker part of run_checks
run_docker(acc, check_name, enabled, cfg, world) ==
    IF "docker" \in Selected(check_name) /\ enabled["docker"]
    THEN IF ~docker_call_binds
         THEN [acc EXCEPT !.raised = TRUE, !.called = @ \cup {"docker"}]
         ELSE LET r == check_docker_health(cfg, load_state(acc.file), world.docker)
              IN  [acc EXCEPT !.out = @ \o r.out, !.called = @ \cup {"docker"},
                              !.overall_healthy = @ /\ r.summary.status = "healthy"]
    ELSE acc

\* the ssl part of run_checks; not reached after an exception
run_ssl(acc, check_name, enabled, world, d) ==
    IF ~acc.raised /\ "ssl" \in Selected(check_name) /\ enabled["ssl"]
    THEN LET r == check_ssl_certs_sending(Domains, acc.file, world.ssl, d)
         IN  [file |-> r.file, out |-> acc.out \o r.out,
              overall_healthy |-> acc.overall_healthy /\ r.healthy,
              raised |-> r.raised, called |-> acc.called \cup {"ssl"},
              saved |-> acc.saved \cup (IF r.raised THEN {} ELSE {"ssl"})]
    ELSE acc

\* the backup part of run_checks; not reached after an exception
run_backup(acc, check_name, enabled, cfg, world, d) ==
    IF ~acc.raised /\ "backup" \in Selected(check_name) /\ enabled["backup"]
    THEN LET r == check_backup_age_sending(cfg, acc.file, world.probe, d)
         IN  [file |-> r.file, out |-> acc.out \o r.out,
              overall_healthy |-> acc.overall_healthy /\ r.healthy,
              raised |-> r.raised, called |-> acc.called \cup {"backup"},
              saved |-> acc.saved \cup (IF r.raised THEN {} ELSE {"backup"})]
    ELSE acc

\* run_checks: docker, then ssl, then backup, with no try around any of them
run_checks(check_name, enabled, cfg, file, world, d) ==
    run_backup(run_ssl(run_docker(NewRun(file), check_name, enabled, cfg, world),
                       check_name, enabled, world, d),
               check_name, enabled, cfg, world, d)

\* main: sys.exit(1) when run_checks returns False, sys.exit(0) otherwise;
\* an exception that leaves main ends the interpreter with status 1
exit_code(run) == IF run.raised THEN 1 ELSE IF run.overall_healthy THEN 0 ELSE 1

\* the worlds one run can meet
RunDomainObs ==
    {[kind |-> "cert", days_left |-> warning_threshold],
     [kind |-> "cert", days_left |-> critical_threshold - 1],
     [kind |-> "unreachable", days_left |-> -1],
     [kind |-> "unexpected", days_left |-> -1]}

RunDockerObs ==
    {[daemon |-> "unreachable", listed |-> <<>>, now |-> maintenance_end],
     [daemon |-> "ok", now |-> maintenance_end,
      listed |-> [i \in DOMAIN Containers |-> [status |-> "running", start_ok |-> TRUE]]]}

RunWorlds ==
    [docker : RunDockerObs, ssl : [DOMAIN Domains -> RunDomainObs],
     probe : ProbeOutcomes]

\* state files earlier runs have left: the backup entry absent, reset to 0
\* or with one strike; each domain recorded as down or not
RunFiles ==
    {ObjectFile([down_services |-> d]) :
        d \in UNION {[names -> [failure_count : {1}]] :
                        names \in SUBSET {Domains[i] : i \in DOMAIN Domains}}}
    \cup {ObjectFile([down_services |->
                        Put(d, BACKUP_SERVICE_NAME, [failure_count |-> c])]) :
            d \in UNION {[names -> [failure_count : {1}]] :
                            names \in SUBSET {Domains[i] : i \in DOMAIN Domains}},
            c \in {0, 1}}
    \cup {AbsentFile}

InitRun ==
    /\ stateFile \in RunFiles
    /\ Quiescent

\* one process started with --check
MainCheck ==
    /\ last.check = "none"
    /\ \E check_name \in CheckNames, enabled \in [Monitors -> BOOLEAN],
          world \in RunWorlds, d \in RunDeliveries :
          LET run == run_checks(check_name, enabled, config, stateFile, world, d)
          IN  /\ stateFile' = run.file
              /\ sent' = run.out
              /\ last' = [check |-> "run", check_name |-> check_name,
                          enabled |-> enabled, world |-> world, delivery |-> d,
                          before |-> stateFile, run |-> run,
                          exit_code |-> exit_code(run)]
    /\ cycle' = cycle + 1
    /\ UNCHANGED <<dockerState, config, hist, pc, localState, marked, notifier>>

NextRun == MainCheck

SpecRun == InitRun /\ [][NextRun]_vars

\* ------------------------------------------------- main.py: load_config
\* A configuration document as the values load_config can meet: at
\* section.key (depth 2) or inside a dict that is the value of section.key
\* (depth 3); each is absent, a literal string or a string "${NAME}".
ConfigPaths ==
    {<<"google_chat", "webhook_url">>,
     <<"backup", "rclone_remote">>,
     <<"docker", "container_name_mapping", "azuracast">>}

EnvNames == {"GOOGLE_CHAT_WEBHOOK_URL", "RCLONE_REMOTE"}

ConfigValues ==
    {[kind |-> "absent", name |-> ""], [kind |-> "literal", name |-> ""]}
    \cup {[kind |-> "reference", name |-> n] : n \in EnvNames}

Documents == [ConfigPaths -> ConfigValues]

\* os.getenv(NAME): unset, set to the empty string, or set to a value
Environments == [EnvNames -> {"unset", "empty", "set"}]

\* the two loops reach the values of section.key only, and only a str value
\* of the form ${...} is looked at: a dict value is passed over
is_substituted(path, value) == Len(path) = 2 /\ value.kind = "reference"

\* `if not env_value: sys.exit(1)`
missing_variable(document, environ) ==
    \E path \in DOMAIN document :
       /\ is_substituted(path, document[path])
       /\ environ[document[path].name] \in {"unset", "empty"}

\* config[section][key] = env_value
substituted(document, environ) ==
    [path \in DOMAIN document |->
        IF is_substituted(path, document[path])
        THEN [kind |-> "value_of", name |-> document[path].name]
        ELSE document[path]]

\* the final validation
webhook_missing(cfg) == cfg[<<"google_chat", "webhook_url">>].kind = "absent"

\* load_config: sys.exit(1) or the processed configuration
load_config(present, document, environ) ==
    IF ~present THEN [exit_code |-> 1, config |-> document]
    ELSE IF missing_variable(document, environ)
    THEN [exit_code |-> 1, config |-> document]
    ELSE IF webhook_missing(substituted(document, environ))
    THEN [exit_code |-> 1, config |-> substituted(document, environ)]
    ELSE [exit_code |-> 0, config |-> substituted(document, environ)]

ConfigInputs ==
    [check : {"input"}, function : {"load_config"}, present : BOOLEAN,
     document : Documents, environ : Environments]

\* ------------------------------------ `--check backup` on any state file
\* monitor_state.json as an earlier version or another configuration of the
\* program left it
InitAnyStore ==
    /\ stateFile \in StoreFiles
    /\ dockerState = default_state
    /\ config \in Configs
    /\ sent = <<>>
    /\ last = [check |-> "none"]
    /\ hist = [e \in Observed |-> NoRun]
    /\ cycle = 0
    /\ pc = [p \in Invocations |-> "idle"]
    /\ localState = [p \in Invocations |-> default_state]
    /\ marked = [p \in Invocations |-> [down |-> {}, healthy |-> {}]]
    /\ notifier = IdleNotifier

\* a cycle whose load_state returns
BackupCompleted ==
    /\ ~load_state_raises(stateFile)
    /\ BackupCycle

\* a cycle whose load_state raises: check_backup_age ends there
BackupRaised ==
    /\ load_state_raises(stateFile)
    /\ cycle < MaxCycles
    /\ last' = [check |-> "backup", status |-> "raised"]
    /\ cycle' = cycle + 1
    /\ UNCHANGED <<stateFile, dockerState, config, sent, hist, pc, localState,
                   marked, notifier>>

NextAnyStore == BackupCompleted \/ BackupRaised

SpecAnyStore == InitAnyStore /\ [][NextAnyStore]_vars

\* --------------------------- backup and certificate checks on any state file
\* the state files load_state returns from
InitSerialStore ==
    /\ stateFile \in StoreFiles
    /\ ~load_state_raises(stateFile)
    /\ Quiescent

\* cron starts the two checks that use the state file one after the other
NextSerialStore ==
    /\ cycle < MaxSerialCycles
    /\ (BackupCycle \/ SslCycle)

SpecSerialStore == InitSerialStore /\ [][NextSerialStore]_vars

\* ------------------------------------- docker_health.py: the window, parsed
\* 'HH:MM' strings: the ones map(int, s.split(':')) and now.replace accept,
\* as hour and minute, and one that raises ValueError
ClockHours == {0, 2, 23}

ClockMinutes == {0, 15, 59}

TimesOfDay == [parses : {TRUE}, hour : ClockHours, minute : ClockMinutes]

TimeStrings == TimesOfDay \cup {[parses |-> FALSE, hour |-> 0, minute |-> 0]}

\* a time of day as now.replace(hour=..., minute=...) orders it
minute_of_day(t) == t.hour * 60 + t.minute

\* _is_in_maintenance_window(config) with its parsing: UnknownTimeZoneError
\* and ValueError give False
maintenance_window(in) ==
    IF ~in.enabled THEN FALSE
    ELSE IF ~in.timezone_known \/ ~in.start_time.parses \/ ~in.end_time.parses
    THEN FALSE
    ELSE _is_in_maintenance_window(TRUE, minute_of_day(in.start_time),
                                   minute_of_day(in.end_time), minute_of_day(in.now))

WindowInputs ==
    [check : {"input"}, function : {"maintenance_window"}, enabled : BOOLEAN,
     timezone_known : BOOLEAN, start_time : TimeStrings, end_time : TimeStrings,
     now : TimesOfDay]

\* ----------------------------------- backup_check.py: the latest backup
MaxListing == 2

\* entries of `rclone lsjson`: Path, and ModTime as an ISO string with a UTC
\* offset (wall clock and offset in hours), a string fromisoformat rejects,
\* or no ModTime at all
ListedPaths == {"a.tar.gz", "b.tar.gz", "notes.txt"}

ends_with_tar_gz(path) == path \in {"a.tar.gz", "b.tar.gz"}

ModTimes ==
    {[kind |-> k, wall |-> 0, offset |-> 0] : k \in {"missing", "unparsable"}}
    \cup [kind : {"iso"}, wall : {10, 11}, offset : {0, 2}]

ListedFiles == [Path : ListedPaths, ModTime : ModTimes]

Listings == UNION {[1..n -> ListedFiles] : n \in 0..MaxListing}

NoBackup == [found |-> FALSE, path |-> "", mod_time |-> 0]

\* fromisoformat(...).replace(tzinfo=None): the wall clock, the offset dropped
naive_mod_time(m) == m.wall

\* `for file_info in files`: other paths are skipped, ValueError is caught
\* inside the loop; time_str.replace on a missing ModTime is an
\* AttributeError, which only the outer `except Exception` catches
RECURSIVE scan_listing(_, _, _)
scan_listing(files, i, latest) ==
    IF i > Len(files) THEN latest
    ELSE IF ~ends_with_tar_gz(files[i].Path) THEN scan_listing(files, i + 1, latest)
    ELSE IF files[i].ModTime.kind = "missing" THEN NoBackup
    ELSE IF files[i].ModTime.kind = "unparsable" THEN scan_listing(files, i + 1, latest)
    ELSE IF ~latest.found \/ naive_mod_time(files[i].ModTime) > latest.mod_time
    THEN scan_listing(files, i + 1,
                      [found |-> TRUE, path |-> files[i].Path,
                       mod_time |-> naive_mod_time(files[i].ModTime)])
    ELSE scan_listing(files, i + 1, latest)

\* _get_latest_backup_info on a listing that was fetched and parsed
latest_backup_info(files) == scan_listing(files, 1, NoBackup)

ListingInputs == [check : {"input"}, function : {"latest_backup_info"}, files : Listings]

\* ------------------------------------------ main.py: --scheduled-summary
SummaryTimes == [hour : {9, 23}, minute : {0, 56, 58}]

SummaryClock == [hour : {0, 9, 10, 23}, minute : {0, 1, 2, 3, 4, 55, 56, 57, 58, 59}]

\* the test of the 5-minute window
summary_due(summary_time, now) ==
    /\ now.hour = summary_time.hour
    /\ now.minute >= summary_time.minute
    /\ now.minute < summary_time.minute + 5

\* main with --scheduled-summary: run_summary or skip, then sys.exit(0);
\* sys.exit(1) on an unknown timezone
scheduled_summary(in) ==
    IF ~in.timezone_known THEN [ran |-> FALSE, exit_code |-> 1]
    ELSE [ran |-> summary_due(in.summary_time, in.now), exit_code |-> 0]

SummaryInputs ==
    [check : {"input"}, function : {"scheduled_summary"}, timezone_known : BOOLEAN,
     summary_time : SummaryTimes, now : SummaryClock]

\* ------------------------------------ ssl_check.py: one certificate, any
\* alert_days: days_left of the certificate, the two thresholds, and whether
\* the domain is recorded as down when the check starts
CertificateInputs ==
    [check : {"input"}, function : {"certificate"}, days_left : -1..4,
     critical : 0..2, warning : 0..3, was_down : BOOLEAN]

\* the loop body of check_ssl_certs on one domain whose handshake succeeds
certificate_step(in) ==
    domain_step([state |-> IF in.was_down
                           THEN mark_service_down(Domains[1], default_state)
                           ELSE default_state,
                 out |-> <<>>, results |-> <<>>],
                Domains[1], [kind |-> "cert", days_left |-> in.days_left],
                in.critical, in.warning)

\* ------------------------------------------- functions applied to inputs
FunctionInputs ==
    ConfigInputs \cup WindowInputs \cup ListingInputs \cup SummaryInputs
    \cup CertificateInputs

InitFunctions ==
    /\ stateFile = AbsentFile
    /\ dockerState = default_state
    /\ config = [failure_threshold |-> 2, alert_on_recovery |-> FALSE,
                 maintenance_enabled |-> FALSE]
    /\ sent = <<>>
    /\ last \in FunctionInputs
    /\ hist = [e \in Observed |-> NoRun]
    /\ cycle = 0
    /\ pc = [p \in Invocations |-> "idle"]
    /\ localState = [p \in Invocations |-> default_state]
    /\ marked = [p \in Invocations |-> [down |-> {}, healthy |-> {}]]
    /\ notifier = IdleNotifier

\* main: load_config inside try / except SystemExit; the process goes on to
\* its mode only when load_config has returned
MainLoadConfig ==
    /\ last.check = "input"
    /\ last.function = "load_config"
    /\ LET r == load_config(last.present, last.document, last.environ)
       IN  /\ last' = [check |-> "load_config", input |-> last,
                       exit_code |-> r.exit_code, config |-> r.config]
           /\ pc' = [pc EXCEPT ![StoreProcess] =
                        IF r.exit_code = 1 THEN "exited" ELSE "configured"]
    /\ UNCHANGED <<stateFile, dockerState, config, sent, hist, cycle, localState,
                   marked, notifier>>

\* GOOGLE_CHAT_WEBHOOK_URL as os.getenv gives it to _get_webhook_url
webhook_env(environ) ==
    IF environ["GOOGLE_CHAT_WEBHOOK_URL"] = "set" THEN "configured" ELSE "unset"

\* the first notification of a process whose load_config returned
MainNotify ==
    /\ last.check = "load_config"
    /\ last.exit_code = 0
    /\ notifier.pc = "idle"
    /\ \E responses \in [1..max_retries -> Responses], severity \in Severities :
          notifier' = _send_card(NewSend(webhook_env(last.input.environ),
                                         responses, severity))
    /\ UNCHANGED <<stateFile, dockerState, config, sent, last, hist, cycle, pc,
                   localState, marked>>

\* one call of _is_in_maintenance_window
WindowCall ==
    /\ last.check = "input"
    /\ last.function = "maintenance_window"
    /\ last' = [check |-> "maintenance_window", input |-> last,
                result |-> maintenance_window(last)]
    /\ UNCHANGED <<stateFile, dockerState, config, sent, hist, cycle, pc,
                   localState, marked, notifier>>

\* one call of _get_latest_backup_info, from the parsed listing on
ListingCall ==
    /\ last.check = "input"
    /\ last.function = "latest_backup_info"
    /\ last' = [check |-> "latest_backup_info", input |-> last,
                result |-> latest_backup_info(last.files)]
    /\ UNCHANGED <<stateFile, dockerState, config, sent, hist, cycle, pc,
                   localState, marked, notifier>>

\* one process started with --scheduled-summary
MainScheduledSummary ==
    /\ last.check = "input"
    /\ last.function = "scheduled_summary"
    /\ last' = [check |-> "scheduled_summary", input |-> last,
                result |-> scheduled_summary(last)]
    /\ UNCHANGED <<stateFile, dockerState, config, sent, hist, cycle, pc,
                   localState, marked, notifier>>

\* one domain of one check_ssl_certs call
CertificateCall ==
    /\ last.check = "input"
    /\ last.function = "certificate"
    /\ last' = [check |-> "certificate", input |-> last,
                result |-> certificate_step(last)]
    /\ UNCHANGED <<stateFile, dockerState, config, sent, hist, cycle, pc,
                   localState, marked, notifier>>

NextFunctions ==
    \/ MainLoadConfig
    \/ MainNotify
    \/ WindowCall
    \/ ListingCall
    \/ MainScheduledSummary
    \/ CertificateCall

SpecFunctions == InitFunctions /\ [][NextFunctions]_vars

\* ------------------------------------------------ properties: backup check
BackupRun == hist[BACKUP_SERVICE_NAME]

BackupCount == get_failure_count(BACKUP_SERVICE_NAME, load_state(stateFile))

BackupRecorded == is_service_down(BACKUP_SERVICE_NAME, load_state(stateFile))

OfflineAlert ==
    [severity |-> "critical", title |-> OfflineTitle,
     entity |-> BACKUP_SERVICE_NAME]

FailureAlert ==
    [severity |-> "critical", title |-> "CRITICAL: Backup System Failure",
     entity |-> BACKUP_SERVICE_NAME]

BackupAllClear ==
    [severity |-> "info", title |-> "ALL CLEAR: Backup System Restored",
     entity |-> BACKUP_SERVICE_NAME]

\* the alert the listing probe itself sends in a cycle
AdapterSent == IF last.probe.kind = "exit_nonzero" THEN <<OfflineAlert>> ELSE <<>>

\* C1: a backup that is missing or too old in N consecutive cycles from a
\* healthy start, with threshold T <= N, gets exactly one critical
\* notification over the N cycles, in cycle T, and none in cycles T+1..N.
C1_OneCriticalPerOutage ==
    (last.check = "backup" /\ BackupRun.streak >= 1 /\ ~BackupRun.adapter) =>
        /\ BackupRun.streak < config.failure_threshold => BackupRun.alerts = 0
        /\ BackupRun.streak >= config.failure_threshold => BackupRun.alerts = 1
        /\ BackupRun.streak = config.failure_threshold => CountCritical(sent) = 1
        /\ BackupRun.streak > config.failure_threshold => CountCritical(sent) = 0

\* C3: a healthy observation after fewer than failure_threshold consecutive
\* failures, none of them alerted, sends no ALL CLEAR and discards the
\* strike record.
C3_NoRecoveryNoticeBelowThreshold ==
    (/\ last.check = "backup"
     /\ last.status = "success"
     /\ last.prior[BACKUP_SERVICE_NAME].streak >= 1
     /\ last.prior[BACKUP_SERVICE_NAME].streak < config.failure_threshold
     /\ last.prior[BACKUP_SERVICE_NAME].alerts = 0) =>
        /\ sent = <<>>
        /\ ~BackupRecorded

\* C4 (as stated): with failure_threshold = 2 and a healthy start, the first
\* failing observation of any kind sends nothing and leaves failure_count = 1;
\* the second consecutive one sends exactly one critical notification.
C4_ThresholdBoundaryAnyKind ==
    (last.check = "backup" /\ config.failure_threshold = 2) =>
        /\ BackupRun.streak = 1 => (sent = <<>> /\ BackupCount = 1)
        /\ BackupRun.streak = 2 => (Len(sent) = 1 /\ CountCritical(sent) = 1)

\* C4 (amended): with failure_threshold = 2 and a healthy start, the first
\* failing observation leaves failure_count = 1 and sends nothing but the
\* listing probe's own "Backup System Offline" alert (sent only when the
\* listing command exited non-zero); the second consecutive one sends
\* exactly one "Backup System Failure" alert after the probe's own, if any.
C4_ThresholdBoundary ==
    (last.check = "backup" /\ config.failure_threshold = 2) =>
        /\ BackupRun.streak = 1 => (sent = AdapterSent /\ BackupCount = 1)
        /\ BackupRun.streak = 2 => sent = AdapterSent \o <<FailureAlert>>

C4_Witness ==
    /\ last.check = "backup"
    /\ config.failure_threshold = 2
    /\ BackupRun.streak = 2
    /\ last.probe.kind = "timeout"
    /\ sent = <<FailureAlert>>

\* C9 (as stated): threshold 2, healthy start, observations failed, failed,
\* failed, healthy: nothing sent and failure_count = 1; exactly one critical;
\* nothing sent; exactly one info ALL CLEAR and the record removed.
C9_FourCycleScenarioAnyKind ==
    (last.check = "backup" /\ config.failure_threshold = 2) =>
        /\ BackupRun.streak = 1 => (sent = <<>> /\ BackupCount = 1)
        /\ BackupRun.streak = 2 => sent = <<FailureAlert>>
        /\ BackupRun.streak = 3 => sent = <<>>
        /\ (last.status = "success" /\ last.prior[BACKUP_SERVICE_NAME].streak = 3) =>
              (sent = <<BackupAllClear>> /\ ~BackupRecorded)

\* C9 (amended): the same four cycles, for failing observations other than a
\* non-zero exit of the listing command; a cycle whose listing command exited
\* non-zero sends, before anything else, the probe's own critical alert.
C9_FourCycleScenario ==
    (last.check = "backup" /\ config.failure_threshold = 2) =>
        /\ BackupRun.streak = 1 => (sent = AdapterSent /\ BackupCount = 1)
        /\ BackupRun.streak = 2 => sent = AdapterSent \o <<FailureAlert>>
        /\ BackupRun.streak = 3 => (sent = AdapterSent /\ BackupRecorded)
        /\ (last.status = "success" /\ last.prior[BACKUP_SERVICE_NAME].streak = 3) =>
              (sent = <<BackupAllClear>> /\ ~BackupRecorded)

C9_Witness ==
    /\ last.check = "backup"
    /\ config.failure_threshold = 2
    /\ last.status = "success"
    /\ last.prior[BACKUP_SERVICE_NAME].streak = 3
    /\ ~last.prior[BACKUP_SERVICE_NAME].adapter
    /\ last.prior[BACKUP_SERVICE_NAME].alerts = 1
    /\ sent = <<BackupAllClear>>
    /\ ~BackupRecorded

\* ------------------------------------------- properties: recovery (C2)
\* e had a record when the cycle started and its outage had been alerted
WasAlertedDown(e) ==
    /\ is_service_down(e, last.before)
    /\ last.prior[e].alerts >= 1

\* the recovery notice the policy asks for: one info notification for e when
\* alert_on_recovery is set, none when it is not
RecoveryNotice(e) ==
    IF config.alert_on_recovery
    THEN /\ Len(ForEntity(sent, e)) = 1
         /\ ForEntity(sent, e)[1].severity = "info"
    ELSE ForEntity(sent, e) = <<>>

\* C2: for an entity recorded as down after an alert, one healthy
\* observation (backup fresh, container running, certificate valid) removes
\* its record in that cycle and sends exactly one info ALL CLEAR if and only
\* if alert_on_recovery is true; when it is false nothing is sent.
C2_RecoveryCorrectness ==
    /\ (/\ last.check = "backup"
        /\ last.status = "success"
        /\ WasAlertedDown(BACKUP_SERVICE_NAME)) =>
           (~BackupRecorded /\ RecoveryNotice(BACKUP_SERVICE_NAME))
    /\ (last.check = "docker" /\ last.obs.listed # <<>>) =>
           \A i \in DOMAIN Containers :
              (last.obs.listed[i].status = "running" /\ WasAlertedDown(Containers[i])) =>
                 /\ ~is_service_down(Containers[i], dockerState)
                 /\ RecoveryNotice(Containers[i])
    /\ last.check = "ssl" =>
           \A i \in DOMAIN Domains :
              (last.results[i].status = "valid" /\ WasAlertedDown(Domains[i])) =>
                 /\ ~is_service_down(Domains[i], load_state(stateFile))
                 /\ RecoveryNotice(Domains[i])

\* ------------------------------------------- properties: container check
\* C5: over consecutive non-maintenance cycles that find a container
\* restarting, or exited/dead with the restart failing, at most one cycle
\* sends a critical notification for that container.
C5_OneCriticalPerContainerOutage ==
    \A i \in DOMAIN Containers : hist[Containers[i]].alerts <= 1

\* C7: while the maintenance window is active check_docker_health sends
\* nothing, attempts no restart and leaves the down-state store as it was,
\* whatever the containers' status; in the first cycle after the window the
\* stopped containers are restarted and the running ones cleared again.
C7_MaintenanceSuppression ==
    last.check = "docker" =>
        /\ last.in_maintenance =>
              /\ sent = <<>>
              /\ last.restarts = <<>>
              /\ dockerState = last.before
        /\ (last.after_maintenance /\ ~last.in_maintenance /\ last.obs.listed # <<>>) =>
              \A i \in DOMAIN Containers :
                 /\ last.obs.listed[i].status \in {"exited", "dead"} =>
                       \E j \in DOMAIN last.restarts : last.restarts[j] = Containers[i]
                 /\ last.obs.listed[i].status = "running" =>
                       ~is_service_down(Containers[i], dockerState)

AutoRecovery(name) ==
    [severity |-> "info", title |-> "Auto-Recovery: Restarted", entity |-> name]

\* C8: outside a maintenance window, a container found exited or dead whose
\* restart succeeds gets exactly one info Auto-Recovery notification and no
\* critical one in that cycle, and is not recorded as down when the cycle
\* ends, whether or not it was recorded as down before.
C8_AutoRemediation ==
    (last.check = "docker" /\ last.obs.listed # <<>> /\ ~last.in_maintenance) =>
        \A i \in DOMAIN Containers :
           (last.obs.listed[i].status \in {"exited", "dead"} /\ last.obs.listed[i].start_ok) =>
              /\ ForEntity(sent, Containers[i]) = <<AutoRecovery(Containers[i])>>
              /\ ~is_service_down(Containers[i], dockerState)

C8_Witness ==
    /\ last.check = "docker"
    /\ last.obs.listed # <<>>
    /\ ~last.in_maintenance
    /\ \E i \in DOMAIN Containers :
          /\ last.obs.listed[i].status = "dead"
          /\ last.obs.listed[i].start_ok
          /\ is_service_down(Containers[i], last.before)
          /\ ForEntity(sent, Containers[i]) = <<AutoRecovery(Containers[i])>>
          /\ ~is_service_down(Containers[i], dockerState)

\* ----------------------------------------- properties: certificate check
\* C6: a domain whose check fails in consecutive cycles (expired, expiring
\* within the critical threshold, invalid certificate, unreachable) gets
\* exactly one alert for the outage, in the first failing cycle, and none in
\* the following cycles while it stays recorded as down.
C6_OneAlertPerDomainOutage ==
    \A i \in DOMAIN Domains :
       hist[Domains[i]].streak >= 1 =>
          /\ hist[Domains[i]].alerts = 1
          /\ (last.check = "ssl" /\ hist[Domains[i]].streak > 1) =>
                CountAlerts(ForEntity(sent, Domains[i])) = 0

\* --------------------------------------- properties: overlapping invocations
AllDone == \A p \in Invocations : pc[p] = "done"

\* C10: however two invocations interleave their load_state and save_state
\* calls, once both have finished the persisted store holds every entity that
\* either of them marked down (and the other did not find healthy): the
\* outcome that mutually exclusive load-mutate-save sequences give.
C10_NoLostUpdate ==
    AllDone =>
        \A p \in Invocations : \A q \in Invocations \ {p} :
           \A e \in marked[p].down \ marked[q].healthy :
              is_service_down(e, load_state(stateFile))

\* ------------------------------------------------ properties: state store
\* C11: atomic save. When the process is stopped at any point during
\* save_state, the state file holds either the complete snapshot it held
\* before the save began or the complete new snapshot, never an empty or
\* truncated document (so a later load_state forgets no recorded entity).
C11_AtomicSave ==
    (last.check = "stopped" /\ last.during_save) =>
        stateFile \in {last.previous, save_state(last.new)}

\* C12: load_state is never fatal. For every content of the state file that
\* is absent or corrupt (absent, unreadable, not JSON, a JSON array or
\* number, an object without 'down_services', 'down_services' neither a list
\* nor an object) load_state returns normally and returns the empty state.
C12_LoadNeverFatal ==
    (last.check = "load_state" /\ last.file.kind \notin {"object", "legacy"}) =>
        /\ ~last.raised
        /\ last.state = default_state

\* the names of a list, as a set
ListedNames(names) == {names[i] : i \in DOMAIN names}

\* C13: legacy migration. When the file holds 'down_services' as a flat list
\* of names, load_state returns a mapping with exactly those names, each
\* with failure_count = 1, and writes the new-shape document back before it
\* returns; a second load_state finds the new shape, performs no migration
\* and returns the same mapping.
C13_LegacyMigration ==
    (last.check = "load_state" /\ last.file.kind = "legacy") =>
        /\ ~last.raised
        /\ DOMAIN last.state.down_services = ListedNames(last.file.legacy)
        /\ \A n \in DOMAIN last.state.down_services :
              last.state.down_services[n] = [failure_count |-> 1]
        /\ stateFile = ObjectFile(last.state)
        /\ ~needs_migration(stateFile)
        /\ ~load_state_raises(stateFile)
        /\ load_state(stateFile) = last.state
        /\ load_state_writes(stateFile) = stateFile

\* a legacy list naming two different entities has just been migrated
C13_Witness ==
    /\ last.check = "load_state"
    /\ last.file.kind = "legacy"
    /\ Cardinality(ListedNames(last.file.legacy)) = 2
    /\ localState[StoreProcess] = last.state

\* C14: redundant accessor calls are no-ops. mark_service_down on an entity
\* already in the store leaves its failure_count unchanged; mark_service_up
\* and reset_failure_count on an entity absent from the store leave the
\* store unchanged; mark_service_down, mark_service_up or reset_failure_count
\* applied twice in a row gives the same store as applied once.
C14_RedundantAccessorNoOp ==
    LET after == localState[StoreProcess]
    IN  /\ (/\ last.check = "mark_service_down"
            /\ is_service_down(last.service_name, last.before)) =>
               get_failure_count(last.service_name, after)
                  = get_failure_count(last.service_name, last.before)
        /\ (/\ last.check \in {"mark_service_up", "reset_failure_count"}
            /\ ~is_service_down(last.service_name, last.before)) =>
               after = last.before
        /\ last.check \in {"mark_service_down", "mark_service_up",
                           "reset_failure_count"} =>
               Apply(last.check, last.service_name, after) = after

\* mark_service_down has just been called on an entity whose count was 2
C14_Witness ==
    /\ last.check = "mark_service_down"
    /\ is_service_down(last.service_name, last.before)
    /\ get_failure_count(last.service_name, last.before) = 2
    /\ localState[StoreProcess] = last.before

\* --------------------------------------------------- properties: notifier
Posts(trace) ==
    Cardinality({i \in DOMAIN trace : trace[i] \in {"post_ok", "post_failed"}})

C17_Bounded ==
    LET trace == notifier.trace
    IN  /\ Posts(trace) <= 2
        /\ \A i \in DOMAIN trace : trace[i] = "post_ok" => i = Len(trace)
        /\ \A i \in DOMAIN trace :
              trace[i] = "sleep" =>
                 /\ i = 2
                 /\ trace[1] = "post_failed"
                 /\ notifier.pc = "returned" => Len(trace) = 3
        /\ notifier.result => notifier.pc = "returned"
        /\ notifier.pc = "returned" =>
              (notifier.result <=> \E i \in DOMAIN trace : trace[i] = "post_ok")

\* C17: bounded retry in the notifier. For one card _send_card performs at
\* most 2 POST attempts, makes no attempt after the first success, waits only
\* between a failed first attempt and the second attempt (never after the
\* last attempt), always terminates, and returns True exactly when one of
\* the attempts succeeded.
C17_BoundedRetry ==
    /\ []C17_Bounded
    /\ (notifier.pc \in {"post", "sleep"}) ~> (notifier.pc = "returned")

\* the first attempt failed, the wait was made and the second attempt succeeded
C17_Witness ==
    /\ notifier.pc = "returned"
    /\ notifier.trace = <<"post_failed", "sleep", "post_ok">>
    /\ notifier.result

\* ------------------------------------------------ properties: `--check` runs
\* the checks a run is due to make: selected by --check and enabled
Due == {c \in Selected(last.check_name) : last.enabled[c]}

\* the webhook is not configured, or every attempt ends in a RequestException
DeliveryFails(d) ==
    \/ ~_get_webhook_url(d.webhook)
    \/ \A i \in DOMAIN d.responses : d.responses[i] \in RequestFailures

\* the file check_ssl_certs / check_backup_age write when they decide on
\* what they observed, whatever happens to the cards
FileAfterSsl ==
    IF "ssl" \in last.run.called
    THEN save_state(ssl_body(Domains, load_state(last.before), last.world.ssl).state)
    ELSE last.before

FileAfterBackup ==
    IF "backup" \in last.run.called
    THEN save_state(backup_body(config, load_state(FileAfterSsl),
                                last.world.probe).state)
    ELSE FileAfterSsl

\* C15: delivery failure does not lose state. In check_backup_age and
\* check_ssl_certs, whenever delivery fails on every attempt (or no webhook
\* is configured), the state transition decided in that cycle is still
\* written by save_state before the check returns.
C15_DeliveryFailureKeepsState ==
    (last.check = "run" /\ DeliveryFails(last.delivery)) =>
        /\ last.run.called \cap {"ssl", "backup"} \subseteq last.run.saved
        /\ stateFile = FileAfterBackup

\* the backup check reached its threshold while the webhook refused both
\* attempts: the alert was attempted and the reset counter is in the file
C15_Witness ==
    /\ last.check = "run"
    /\ last.delivery.webhook = "configured"
    /\ DeliveryFails(last.delivery)
    /\ "backup" \in last.run.called
    /\ FailureAlert \in {sent[i] : i \in DOMAIN sent}
    /\ get_failure_count(BACKUP_SERVICE_NAME, load_state(last.before)) = 1
    /\ get_failure_count(BACKUP_SERVICE_NAME, load_state(stateFile)) = 0

\* an exception was raised inside a check of the run
ExceptionInCheck ==
    \/ last.run.raised
    \/ send_outcome(last.delivery).raised /\ sent # <<>>

\* C16: job containment. If an unexpected exception is raised inside a
\* check (for example while sending a notification, after the in-memory
\* state was changed), it is caught by the job wrapper, the state of the
\* check is still saved, and the remaining checks of the run still run.
C16_JobContainment ==
    (last.check = "run" /\ ExceptionInCheck) =>
        /\ ~last.run.raised
        /\ Due \subseteq last.run.called
        /\ Due \cap {"ssl", "backup"} \subseteq last.run.saved

\* what each check reports on the world of the run
Unhealthy(c) ==
    CASE c = "docker" ->
            check_docker_health(config, load_state(last.before),
                                last.world.docker).summary.status # "healthy"
      [] c = "ssl" ->
            ~AllValid(check_ssl_certs(Domains, last.before, last.world.ssl).results)
      [] c = "backup" ->
            check_backup_age(config, last.before, last.world.probe).status # "success"

\* C20: exit code of `--check`. The process exits with code 1 if and only
\* if at least one selected and enabled check reports an unhealthy result,
\* and with code 0 otherwise; a disabled check never makes the exit code 1.
C20_ExitCode ==
    (last.check = "run" /\ ~send_outcome(last.delivery).raised) =>
        /\ last.exit_code \in {0, 1}
        /\ last.exit_code = 1 <=> \E c \in Due : Unhealthy(c)

\* --------------------------------------- properties: subsystems and probes
\* C18: adapter-level failures go through the same dedup state machine.
\* While the Docker daemon is unreachable, or the backup listing command
\* fails, in consecutive cycles, the critical notification of that subsystem
\* is emitted once for the continuous outage, not once per cycle.
C18_SubsystemAlertOncePerOutage ==
    \A e \in {DOCKER_DAEMON, BACKUP_LISTING} :
       hist[e].streak >= 1 => hist[e].alerts <= 1

\* C19: transport failures become failed results. Every failure of the
\* listing probe (timeout, non-zero exit, missing executable, output that is
\* not valid JSON) makes check_backup_age return with status 'failed' and
\* count one strike (the counter is one higher, or reset by the alert at the
\* threshold); no probe exception reaches the caller.
C19_TransportFailureIsFailedResult ==
    (last.check = "backup" /\ last.probe.kind \in TransportFailures) =>
        LET counted == get_failure_count(BACKUP_SERVICE_NAME, last.before) + 1
        IN  /\ last.status = "failed"
            /\ BackupRecorded
            /\ BackupCount = IF threshold_reached(counted, config.failure_threshold)
                             THEN 0 ELSE counted
            /\ threshold_reached(counted, config.failure_threshold) =>
                  FailureAlert \in {sent[i] : i \in DOMAIN sent}

\* the listing printed something that is not JSON, for the second time
C19_Witness ==
    /\ last.check = "backup"
    /\ last.probe.kind = "not_json"
    /\ last.status = "failed"
    /\ get_failure_count(BACKUP_SERVICE_NAME, last.before) = 1
    /\ BackupCount = 2

\* ----------------------------------------------- properties: configuration
\* some ${NAME} of the document names a variable that is unset or empty
ReferencesMissing(document, environ) ==
    \E path \in DOMAIN document :
       /\ document[path].kind = "reference"
       /\ environ[document[path].name] \in {"unset", "empty"}

\* C21: configuration errors never run partially. If the configuration file
\* is missing, a referenced environment variable is unset or empty, or the
\* webhook URL is missing after substitution, the process exits with code 1
\* before any probe is run, any notification is sent or the state file is
\* written.
C21_ConfigErrorsAreFatal ==
    (/\ last.check = "load_config"
     /\ \/ ~last.input.present
        \/ ReferencesMissing(last.input.document, last.input.environ)
        \/ webhook_missing(last.config)) =>
        /\ last.exit_code = 1
        /\ pc[StoreProcess] = "exited"
        /\ sent = <<>>
        /\ stateFile = AbsentFile

\* C22: environment substitution covers the whole configuration. After
\* load_config returns, no string value of the form ${NAME} remains anywhere
\* in the configuration, at any nesting depth; each was replaced by the
\* value of the environment variable NAME.
C22_SubstitutionCoversAll ==
    (last.check = "load_config" /\ last.exit_code = 0) =>
        \A path \in DOMAIN last.config :
           /\ last.config[path].kind # "reference"
           /\ last.input.document[path].kind = "reference" =>
                 last.config[path] =
                    [kind |-> "value_of", name |-> last.input.document[path].name]

\* ------------------------------------------- properties: state per check
\* C23: load-mutate-save per check. Every check invocation (docker, ssl,
\* backup) reads the persisted state before its first probe and writes the
\* mutated state back before it returns, so every mark-down / mark-up the
\* check decided, including those of check_docker_health, is in the state
\* file when the check has finished.
C23_LoadMutateSave ==
    /\ last.check = "docker" =>
          \A i \in DOMAIN Containers :
             is_service_down(Containers[i], dockerState)
                <=> is_service_down(Containers[i], load_state(stateFile))
    /\ last.check = "ssl" =>
          stateFile = save_state(ssl_body(Domains, last.before, last.obs).state)
    /\ last.check = "backup" =>
          stateFile = save_state(backup_body(config, last.before, last.probe).state)

\* C27: no 'resolved' message after an auto-restart. If a cycle restarts a
\* stopped container successfully and the next cycle observes that
\* container running, the next cycle emits no ALL CLEAR notification for it.
C27_NoAllClearAfterRestart ==
    (last.check = "docker" /\ last.obs.listed # <<>>) =>
        \A i \in DOMAIN Containers :
           (/\ Containers[i] \in last.restarted_before
            /\ last.obs.listed[i].status = "running") =>
              /\ ForEntity(sent, Containers[i]) = <<>>
              /\ ~is_service_down(Containers[i], last.before)

\* a container was restarted in one cycle and runs in the next
C27_Witness ==
    /\ last.check = "docker"
    /\ last.obs.listed # <<>>
    /\ \E i \in DOMAIN Containers :
          /\ Containers[i] \in last.restarted_before
          /\ last.obs.listed[i].status = "running"
          /\ ForEntity(sent, Containers[i]) = <<>>

\* ------------------------------------------ properties: pure functions
\* the window the configuration describes, from the configured strings
InWindow(in) ==
    LET S == in.start_time.hour * 60 + in.start_time.minute
        E == in.end_time.hour * 60 + in.end_time.minute
        N == in.now.hour * 60 + in.now.minute
    IN  /\ in.enabled
        /\ in.timezone_known
        /\ in.start_time.parses
        /\ in.end_time.parses
        /\ \/ S < E /\ S <= N /\ N < E
           \/ S > E /\ (N >= S \/ N < E)

Candidates(files) ==
    {i \in 1..Len(files) : ends_with_tar_gz(files[i].Path) /\ files[i].ModTime.kind = "iso"}

\* the instant an ISO ModTime names
Instant(m) == m.wall - m.offset

\* the first candidate no other candidate is later than
Greatest(files) ==
    CHOOSE i \in Candidates(files) :
        /\ \A j \in Candidates(files) : Instant(files[j].ModTime) <= Instant(files[i].ModTime)
        /\ \A j \in Candidates(files) :
               Instant(files[j].ModTime) = Instant(files[i].ModTime) => i <= j

\* C25: among the entries with a .tar.gz path and a parsable ModTime the
\* one with the greatest ModTime is selected, the first of equals; with
\* none the result is None
C25_LatestBackupSelection ==
    last.check = "latest_backup_info" =>
        IF Candidates(last.input.files) = {} THEN ~last.result.found
        ELSE /\ last.result.found
             /\ last.result.path = last.input.files[Greatest(last.input.files)].Path

\* minutes from the configured summary time to now, around the clock
SinceSummary(in) ==
    ((in.now.hour * 60 + in.now.minute)
        - (in.summary_time.hour * 60 + in.summary_time.minute)) % 1440

\* C26: a --scheduled-summary process sends the summary exactly when now is
\* in the 5 minutes that start at the configured time, those after the
\* hour included, and otherwise sends nothing and exits 0
C26_SummaryWindow ==
    (last.check = "scheduled_summary" /\ last.input.timezone_known) =>
        /\ last.result.ran <=> SinceSummary(last.input) < 5
        /\ ~last.result.ran => last.result.exit_code = 0

\* ------------------------------------------ properties: the backup record
\* C28: from the cycle that sends the threshold alert and resets the
\* counter on, the backup entity stays in the store through every failing
\* cycle; a cycle that observes a healthy backup removes it
C28_AlertedOutageStaysRecorded ==
    /\ hist[BACKUP_SERVICE_NAME].streak >= config.failure_threshold => BackupRecorded
    /\ (last.check = "backup" /\ last.status = "success") => ~BackupRecorded

C28_Witness ==
    /\ hist[BACKUP_SERVICE_NAME].streak > config.failure_threshold
    /\ last.check = "backup"
    /\ is_service_down(BACKUP_SERVICE_NAME, last.before)
    /\ BackupRecorded

\* C29: whatever the state file held at the start, after every completed
\* cycle the failure_count of the backup entity, if it is recorded, is at
\* least 0 and less than failure_threshold
C29_StrikeCounterBound ==
    (last.check = "backup" /\ last.status # "raised" /\ BackupRecorded) =>
        (BackupCount >= 0 /\ BackupCount < config.failure_threshold)

C29_Witness ==
    /\ last.check = "backup"
    /\ last.status = "failed"
    /\ get_failure_count(BACKUP_SERVICE_NAME, last.before) >= config.failure_threshold
    /\ BackupRecorded
    /\ BackupCount = 0

\* ------------------------------------- properties: certificate ALL CLEAR
\* C30: the certificate check sends an ALL CLEAR for a domain only if an
\* alert (critical or warning) was sent for it in an earlier cycle since it
\* was last observed valid; a domain marked down after an unexpected probe
\* error, without an alert, gets none
C30_NoOrphanAllClear ==
    last.check = "ssl" =>
        \A k \in DOMAIN Domains :
            (\E i \in DOMAIN sent : /\ sent[i].entity = Domains[k]
                                    /\ sent[i].severity = "info")
                => Domains[k] \in last.alerted_before

\* ------------------------------------ properties: certificate classification
\* the alerts of one severity among the notifications
OfSeverity(out, severity) == SelectSeq(out, LAMBDA n : n.severity = severity)

\* C31: with days_left d and thresholds c and w the status is critical when
\* d < 0 or d < c, warning when c <= d < w, valid when d >= max(c, w); one
\* critical alert goes with critical, one warning alert with warning, and
\* nothing is sent for valid on a domain not recorded as down
C31_CertificateClassification ==
    last.check = "certificate" =>
        LET d == last.input.days_left
            c == last.input.critical
            w == last.input.warning
            status == last.result.results[1].status
            out == last.result.out
        IN  /\ (d < 0 \/ d < c) =>
                   /\ status = "critical"
                   /\ Len(out) = 1
                   /\ Len(OfSeverity(out, "critical")) = 1
            /\ (c <= d /\ d < w) =>
                   /\ status = "warning"
                   /\ Len(out) = 1
                   /\ Len(OfSeverity(out, "warning")) = 1
            /\ (d >= c /\ d >= w) =>
                   /\ status = "valid"
                   /\ ~last.input.was_down => out = <<>>

C31_Witness ==
    /\ last.check = "certificate"
    /\ last.input.days_left = last.input.critical
    /\ last.input.days_left < last.input.warning
    /\ last.result.results[1].status = "warning"
    /\ Len(last.result.out) = 1

\* C32: after check_ssl_certs a checked domain is recorded as down exactly
\* when its status of this cycle is critical or error, or it is warning and
\* the domain was recorded before the cycle; only a valid status removes a
\* record
C32_DownSetUpdate ==
    last.check = "ssl" =>
        \A k \in DOMAIN Domains :
            is_service_down(Domains[k], load_state(stateFile)) <=>
                \/ last.results[k].status \in {"critical", "error"}
                \/ /\ last.results[k].status = "warning"
                   /\ is_service_down(Domains[k], last.before)

C32_Witness ==
    /\ last.check = "ssl"
    /\ last.results[1].status = "warning"
    /\ is_service_down(Domains[1], last.before)
    /\ is_service_down(Domains[1], load_state(stateFile))
    /\ last.results[2].status = "valid"
    /\ is_service_down(Domains[2], last.before)

\* ------------------------------------------- properties: frame of a check
\* the record of one entity in a state: absent, or its failure_count
RecordOf(name, state) ==
    IF name \in DOMAIN state.down_services
    THEN [recorded |-> TRUE, failure_count |-> state.down_services[name].failure_count]
    ELSE [recorded |-> FALSE, failure_count |-> 0]

\* the names with a record before or after the last check
NamesAround ==
    DOMAIN last.before.down_services \cup DOMAIN load_state(stateFile).down_services

\* C33: in a serial run the backup check changes only the record of
\* 'Server Backup System' and the certificate check only the records of its
\* domains; every other record, with its failure_count, is as before
C33_FrameOfCheck ==
    /\ last.check = "backup" =>
           \A name \in NamesAround \ {BACKUP_SERVICE_NAME} :
               RecordOf(name, load_state(stateFile)) = RecordOf(name, last.before)
    /\ last.check = "ssl" =>
           \A name \in NamesAround \ {Domains[k] : k \in DOMAIN Domains} :
               RecordOf(name, load_state(stateFile)) = RecordOf(name, last.before)

C33_Witness ==
    /\ last.check = "ssl"
    /\ is_service_down(BACKUP_SERVICE_NAME, last.before)
    /\ is_service_down(BACKUP_SERVICE_NAME, load_state(stateFile))
    /\ \E k \in DOMAIN Domains :
           /\ is_service_down(Domains[k], last.before)
           /\ ~is_service_down(Domains[k], load_state(stateFile))

\* --------------------------------------- properties: container summary
\* C34: with the daemon unreachable, or no container listed, the check
\* changes no record of the state it was given and attempts no restart; it
\* returns critical in the first case, healthy without a notification in
\* the second
C34_DaemonOutcomesKeepRecords ==
    (last.check = "docker" /\ (last.obs.daemon = "unreachable" \/ last.obs.listed = <<>>)) =>
        /\ dockerState = last.before
        /\ last.restarts = <<>>
        /\ IF last.obs.daemon = "unreachable"
           THEN last.summary.status = "critical"
           ELSE last.summary.status = "healthy" /\ sent = <<>>

C34_Witness ==
    /\ last.check = "docker"
    /\ last.obs.daemon = "unreachable"
    /\ DOMAIN last.before.down_services # {}
    /\ dockerState = last.before
    /\ last.summary.status = "critical"

\* the containers of a cycle that are restarting or whose restart failed
CriticalContainers(l) ==
    {i \in DOMAIN l.obs.listed :
        \/ l.obs.listed[i].status = "restarting"
        \/ /\ l.obs.listed[i].status \in {"exited", "dead"}
           /\ ~l.in_maintenance
           /\ ~l.obs.listed[i].start_ok}

\* the containers of a cycle that were restarted
RestartedContainers(l) ==
    {i \in DOMAIN l.obs.listed :
        /\ l.obs.listed[i].status \in {"exited", "dead"}
        /\ ~l.in_maintenance
        /\ l.obs.listed[i].start_ok}

\* C35: the summary status is critical exactly when a container was
\* restarting or failed to restart or the daemon was unreachable, warning
\* exactly when there is none and a container was auto-restarted, healthy
\* otherwise, in whatever order the containers are listed; issues holds
\* exactly the critical containers; running + stopped <= total_containers
C35_SummaryIsWorstOutcome ==
    last.check = "docker" =>
        LET critical == last.obs.daemon = "unreachable" \/ CriticalContainers(last) # {}
            warning == ~critical /\ RestartedContainers(last) # {}
            summary == last.summary
        IN  /\ summary.status = "critical" <=> critical
            /\ summary.status = "warning" <=> warning
            /\ summary.status = "healthy" <=> (~critical /\ ~warning)
            /\ {summary.issues[i] : i \in DOMAIN summary.issues}
                   = {Containers[i] : i \in CriticalContainers(last)}
            /\ Len(summary.issues) = Cardinality(CriticalContainers(last))
            /\ summary.running + summary.stopped <= summary.total_containers

C35_Witness ==
    /\ last.check = "docker"
    /\ last.obs.daemon = "ok"
    /\ last.obs.listed # <<>>
    /\ 1 \in CriticalContainers(last)
    /\ 2 \in RestartedContainers(last)
    /\ last.summary.status = "critical"
    /\ last.summary.issues = <<Containers[1]>>

\* ------------------------------------ properties: per-domain containment
\* the handshake outcomes that are probe failures
ProbeFailures == {"unreachable", "invalid", "unexpected"}

\* C36: the certificate check returns one report per configured domain, in
\* configuration order, and a probe failure on one domain neither stops
\* the domains after it from being checked nor the state from being saved
C36_PerDomainContainment ==
    last.check = "ssl" =>
        /\ Len(last.results) = Len(Domains)
        /\ \A k \in DOMAIN Domains :
               /\ last.results[k].domain = Domains[k]
               /\ last.obs[k].kind = "cert" => last.results[k].status # "error"
               /\ last.obs[k].kind \in ProbeFailures =>
                      /\ last.results[k].status \in {"error", "critical"}
                      /\ is_service_down(Domains[k], load_state(stateFile))
        /\ stateFile.kind = "object"

C36_Witness ==
    /\ last.check = "ssl"
    /\ last.obs[1].kind = "unexpected"
    /\ last.obs[2].kind = "cert"
    /\ last.results[2].status = "valid"
    /\ is_service_down(Domains[2], last.before)
    /\ ~is_service_down(Domains[2], load_state(stateFile))
    /\ is_service_down(Domains[1], load_state(stateFile))

\* ------------------------------------ properties: configuration and notifier
\* C37: after load_config has returned, a notification makes at least one
\* delivery attempt: _send_card never skips for want of a webhook URL
C37_ValidatedConfigUsableNotifier ==
    (last.check = "load_config" /\ last.exit_code = 0 /\ notifier.pc = "returned") =>
        Posts(notifier.trace) >= 1

\* --------------------------------------- properties: bad listing entries
\* a .tar.gz entry whose ModTime is missing or unparsable
BadEntry(file_info) ==
    ends_with_tar_gz(file_info.Path) /\ file_info.ModTime.kind # "iso"

\* the listing without its bad entries
WithoutBadEntries(files) == SelectSeq(files, LAMBDA file_info : ~BadEntry(file_info))

\* C38: a .tar.gz entry whose ModTime is missing or unparsable is ignored:
\* the latest backup is the one found in the listing without that entry,
\* so a valid archive in the same listing is still found
C38_BadEntrySkipped ==
    last.check = "latest_backup_info" =>
        /\ last.result = latest_backup_info(WithoutBadEntries(last.input.files))
        /\ Candidates(last.input.files) # {} => last.result.found

====
